---------------------------- MODULE Spec2Model ----------------------------
(***************************************************************************)
(* Model of static/js/logic.js: the earthquake map's one-shot pipeline     *)
(*   init() -> d3.json -> getDepths -> chroma.limits / chroma.scale ->     *)
(*   createEarthquakeFeatures -> createMap -> createLegend.                *)
(*                                                                         *)
(* Numbers are scaled integers:                                            *)
(*   depths and colour-domain values in 0.001 km  (0.01 km  = 10),         *)
(*   magnitudes and radii in tenths               (0.5 = 5, 2 = 20),       *)
(*   legend labels in hundredths of a km          (two decimal places).    *)
(* A JavaScript value is a record [t, v]: t = "num" with the scaled        *)
(* integer v, or t = "undefined" / "nan" / "maxvalue" / "negmaxvalue".     *)
(***************************************************************************)
EXTENDS Integers, Sequences, FiniteSets, TLC

VARIABLES
    pc,              \* position of init(): load, await, line15 .. done, failed
    error,           \* the uncaught failure that ended init(), or "none"
    fetchState,      \* idle, pending, resolved, rejected (the d3.json promise)
    fetchCount,      \* number of d3.json(url) calls issued
    response,        \* the features of the feed the promise resolved with
    earthquakeData,  \* init's local: the features once the await returned
    allDepths,       \* init's local: getDepths(earthquakeData.features)
    gradientColors,  \* module-level palette
    colorDomain,     \* module-level, undefined until line 17
    chromaScale,     \* module-level, undefined until line 18
    markers,         \* circle markers registered in the L.geoJSON layer group
    overlayBuilt,    \* createEarthquakeFeatures returned the layer group
    mapBuilt,        \* L.map(...) constructed, layers and control added
    legendAdded,     \* legend.addTo(map) ran the onAdd callback
    legend,          \* the <li> labels the onAdd callback produced
    colorDomainWrites, \* history: assignments to colorDomain
    chromaScaleWrites, \* history: assignments to chromaScale
    limitsCalls,     \* history: calls of chroma.limits
    readUndefined    \* history: colorDomain or chromaScale read while undefined

vars == <<pc, error, fetchState, fetchCount, response, earthquakeData,
          allDepths, gradientColors, colorDomain, chromaScale, markers,
          overlayBuilt, mapBuilt, legendAdded, legend, colorDomainWrites,
          chromaScaleWrites, limitsCalls, readUndefined>>

moduleState == <<gradientColors, colorDomain, chromaScale>>

(***************************************************************************)
(* Bounds and inputs.                                                      *)
(***************************************************************************)
MaxFeatures == 2

Num(n) == [t |-> "num", v |-> n]
Undefined == [t |-> "undefined", v |-> 0]
NaN == [t |-> "nan", v |-> 0]
MaxValue == [t |-> "maxvalue", v |-> 0]
NegMaxValue == [t |-> "negmaxvalue", v |-> 0]

\* third coordinates a feed may carry (0.001 km): -5, 0, 0.005, 0.01, 0.035
\* km, or no third coordinate at all
DepthInputs == {Num(-5000), Num(0), Num(5), Num(10), Num(35), Undefined}

\* properties.mag a feed may carry (tenths): -1, 0.3, 0.5, 6, or none
MagInputs == {Num(-10), Num(3), Num(5), Num(60), Undefined}

\* a feature: geometry.coordinates present or not, its third coordinate,
\* and properties.mag
FeatureInputs ==
    {[hasCoords |-> TRUE, depth |-> d, mag |-> m] :
        d \in DepthInputs, m \in MagInputs}
    \cup {[hasCoords |-> FALSE, depth |-> Undefined, mag |-> m] :
        m \in MagInputs}

FeedInputs == UNION {[1..n -> FeatureInputs] : n \in 0..MaxFeatures}

UndefinedArray == [t |-> "undefined", v |-> <<>>]
UndefinedScale == [t |-> "undefined", colors |-> <<>>, domain |-> <<>>]

(***************************************************************************)
(* JavaScript arithmetic on the values above.                              *)
(***************************************************************************)
\* a > b : false when either side is not a number (undefined -> NaN)
JsGt(a, b) == a.t = "num" /\ b.t = "num" /\ a.v > b.v

\* a < b
JsLt(a, b) == a.t = "num" /\ b.t = "num" /\ a.v < b.v

\* a * k for an integer literal k : NaN when a is not a number
JsTimes(a, k) == IF a.t = "num" THEN Num(a.v * k) ELSE NaN

(***************************************************************************)
(* getDepths (lines 31-36).                                                *)
(***************************************************************************)
DepthFloor == 10

\* variant: the test written value >= 0
depthValueGe(value) == IF value.t = "num" /\ value.v >= 0 THEN value ELSE Num(DepthFloor)

\* the arrow function's body: value > 0 ? value : 0.01
depthValue(value) == IF JsGt(value, Num(0)) THEN value ELSE Num(DepthFloor)

\* element.geometry.coordinates[2] raises a TypeError when coordinates is absent
getDepthsThrows(features) == \E i \in 1..Len(features) : ~features[i].hasCoords

getDepths(features) == [i \in 1..Len(features) |-> depthValue(features[i].depth)]

(***************************************************************************)
(* radialMagnitude (lines 50-56), in tenths.                               *)
(***************************************************************************)
\* variant: the floor branch left out
radialMagnitudeNoFloor(magnitude) == JsTimes(magnitude, 4)

radialMagnitude(magnitude) ==
    IF JsLt(magnitude, Num(5)) THEN Num(20) ELSE JsTimes(magnitude, 4)

(***************************************************************************)
(* The colour scale (lines 5, 17, 18).  chroma.limits and chroma.scale are *)
(* the chroma.js library's; logic.js decides their arguments.              *)
(***************************************************************************)
Palette == <<"#9AFF9A", "#5AFF5A", "#28C428", "#FF7878", "#FF3232", "#FF0000">>

\* variant: gradientColors.length passed as the class count
numClassesWholePalette == Len(gradientColors)

\* the third argument of chroma.limits at line 17: gradientColors.length - 1
numClasses == Len(gradientColors) - 1

RECURSIVE Pow(_, _)
Pow(b, e) == IF e = 0 THEN 1 ELSE b * Pow(b, e - 1)

SeqMin(data) == CHOOSE x \in {data[i].v : i \in 1..Len(data)} :
                    \A j \in 1..Len(data) : x <= data[j].v

SeqMax(data) == CHOOSE x \in {data[i].v : i \in 1..Len(data)} :
                    \A j \in 1..Len(data) : x >= data[j].v

\* chroma.analyze: min starts at Number.MAX_VALUE, max at -Number.MAX_VALUE
analyzeMin(data) == IF data = <<>> THEN MaxValue ELSE Num(SeqMin(data))

analyzeMax(data) == IF data = <<>> THEN NegMaxValue ELSE Num(SeqMax(data))

\* mode 'l': "Logarithmic scales are only possible for values > 0"
limitsThrows(data) == data # <<>> /\ SeqMin(data) <= 0

\* pow(10, min_log + (i / num) * (max_log - min_log)), i.e. the value whose
\* num-th power is min^(num-i) * max^i, rounded down to the model's unit;
\* NaN when max_log is (the empty data set: log of -MAX_VALUE)
logLimit(lo, hi, i, num) ==
    IF lo.t # "num" \/ hi.t # "num" THEN NaN
    ELSE LET S == {x \in lo.v..hi.v :
                      Pow(x, num) <= Pow(lo.v, num - i) * Pow(hi.v, i)}
         IN Num(CHOOSE x \in S : \A y \in S : y <= x)

\* chroma.limits(data, 'l', num): min, the num - 1 interior breaks, max
limits(data, num) ==
    IF num = 1 THEN <<analyzeMin(data), analyzeMax(data)>>
    ELSE [i \in 1..(num + 1) |->
            IF i = 1 THEN analyzeMin(data)
            ELSE IF i = num + 1 THEN analyzeMax(data)
            ELSE logLimit(analyzeMin(data), analyzeMax(data), i - 1, num)]

\* chroma.scale(colors).domain(domain): the scale function, kept as its
\* two arguments
scaleOf(colors, domain) ==
    [t |-> "scale", colors |-> colors, domain |-> domain]

\* colorDepth (lines 43-45): chromaScale(depth).hex(), the library's result
\* kept as the application it is
colorDepth(depth) == [scale |-> chromaScale, arg |-> depth]

(***************************************************************************)
(* _pointToLayer and _addPopup (lines 61-79): the marker of one feature.   *)
(***************************************************************************)
pointToLayer(feature) ==
    [color     |-> colorDepth(feature.depth),
     fillColor |-> colorDepth(feature.depth),
     radius    |-> radialMagnitude(feature.mag),
     popupMag  |-> feature.mag]

(***************************************************************************)
(* createLegend's onAdd callback (lines 95-117), labels in hundredths.     *)
(***************************************************************************)
\* value.toLocaleString(undefined, {maximumFractionDigits: 2,
\* minimumFractionDigits: 2}): half-way cases round away from zero
toFixed2(value) ==
    CASE value.t = "num" /\ value.v >= 0 ->
            [text |-> "fixed2", cents |-> (value.v + 5) \div 10]
      [] value.t = "num" /\ value.v < 0 ->
            [text |-> "fixed2", cents |-> 0 - ((5 - value.v) \div 10)]
      [] value.t = "maxvalue" -> [text |-> "MAX_VALUE", cents |-> 0]
      [] value.t = "negmaxvalue" -> [text |-> "-MAX_VALUE", cents |-> 0]
      [] OTHER -> [text |-> "NaN", cents |-> 0]

FloorLabel == [text |-> "0.01 +", cents |-> 0]

\* variant: index 0 formatted like every other boundary
legendLabelNoFloor(value, index) == toFixed2(value)

\* index == 0 ? "0.01 +" : value.toLocaleString(...)   (index is 0-based)
legendLabel(value, index) == IF index = 0 THEN FloorLabel ELSE toFixed2(value)

legendLabels(domain) ==
    [i \in 1..Len(domain) |-> legendLabel(domain[i], i - 1)]

(***************************************************************************)
(* The page load.                                                          *)
(***************************************************************************)
Init ==
    /\ pc = "load"
    /\ error = "none"
    /\ fetchState = "idle"
    /\ fetchCount = 0
    /\ response = <<>>
    /\ earthquakeData = <<>>
    /\ allDepths = <<>>
    /\ gradientColors = Palette
    /\ colorDomain = UndefinedArray
    /\ chromaScale = UndefinedScale
    /\ markers = <<>>
    /\ overlayBuilt = FALSE
    /\ mapBuilt = FALSE
    /\ legendAdded = FALSE
    /\ legend = <<>>
    /\ colorDomainWrites = 0
    /\ chromaScaleWrites = 0
    /\ limitsCalls = 0
    /\ readUndefined = FALSE

\* line 174: init() runs up to its await, issuing d3.json(url)
CallInit ==
    /\ pc = "load"
    /\ pc' = "await"
    /\ fetchState' = "pending"
    /\ fetchCount' = fetchCount + 1
    /\ UNCHANGED <<error, response, earthquakeData, allDepths, gradientColors,
                   colorDomain, chromaScale, markers, overlayBuilt, mapBuilt,
                   legendAdded, legend, colorDomainWrites, chromaScaleWrites,
                   limitsCalls, readUndefined>>

\* the feed answers: the promise resolves with a feature collection
FetchResolve ==
    /\ fetchState = "pending"
    /\ \E feed \in FeedInputs : response' = feed
    /\ fetchState' = "resolved"
    /\ UNCHANGED <<pc, error, fetchCount, earthquakeData, allDepths,
                   gradientColors, colorDomain, chromaScale, markers,
                   overlayBuilt, mapBuilt, legendAdded, legend,
                   colorDomainWrites, chromaScaleWrites, limitsCalls,
                   readUndefined>>

\* the request fails: the promise rejects
FetchReject ==
    /\ fetchState = "pending"
    /\ fetchState' = "rejected"
    /\ UNCHANGED <<pc, error, fetchCount, response, earthquakeData, allDepths,
                   gradientColors, colorDomain, chromaScale, markers,
                   overlayBuilt, mapBuilt, legendAdded, legend,
                   colorDomainWrites, chromaScaleWrites, limitsCalls,
                   readUndefined>>

\* variant: line 11 without its await
awaitSettledEarly == TRUE

\* line 11: the await lets init continue only once the promise has settled
awaitSettled == fetchState \in {"resolved", "rejected"}

\* line 11: init resumes with the response, or ends with the rejection
ResumeInit ==
    /\ pc = "await"
    /\ awaitSettled
    /\ IF fetchState = "rejected"
       THEN /\ pc' = "failed"
            /\ error' = "fetch"
            /\ UNCHANGED earthquakeData
       ELSE /\ pc' = "line15"
            /\ earthquakeData' = response
            /\ UNCHANGED error
    /\ UNCHANGED <<fetchState, fetchCount, response, allDepths, gradientColors,
                   colorDomain, chromaScale, markers, overlayBuilt, mapBuilt,
                   legendAdded, legend, colorDomainWrites, chromaScaleWrites,
                   limitsCalls, readUndefined>>

\* line 15: allDepths = getDepths(earthquakeData.features)
ExtractDepths ==
    /\ pc = "line15"
    /\ IF getDepthsThrows(earthquakeData)
       THEN /\ pc' = "failed"
            /\ error' = "TypeError"
            /\ UNCHANGED allDepths
       ELSE /\ pc' = "line17"
            /\ allDepths' = getDepths(earthquakeData)
            /\ UNCHANGED error
    /\ UNCHANGED <<fetchState, fetchCount, response, earthquakeData,
                   gradientColors, colorDomain, chromaScale, markers,
                   overlayBuilt, mapBuilt, legendAdded, legend,
                   colorDomainWrites, chromaScaleWrites, limitsCalls,
                   readUndefined>>

\* line 17: colorDomain = chroma.limits(allDepths, 'l', gradientColors.length - 1)
SetColorDomain ==
    /\ pc = "line17"
    /\ limitsCalls' = limitsCalls + 1
    /\ IF limitsThrows(allDepths)
       THEN /\ pc' = "failed"
            /\ error' = "limits"
            /\ UNCHANGED <<colorDomain, colorDomainWrites>>
       ELSE /\ pc' = "line18"
            /\ colorDomain' = [t |-> "array", v |-> limits(allDepths, numClasses)]
            /\ colorDomainWrites' = colorDomainWrites + 1
            /\ UNCHANGED error
    /\ UNCHANGED <<fetchState, fetchCount, response, earthquakeData, allDepths,
                   gradientColors, chromaScale, markers, overlayBuilt, mapBuilt,
                   legendAdded, legend, chromaScaleWrites, readUndefined>>

\* variant: line 18 without the assignment to the module-level variable
SkipChromaScale ==
    /\ pc = "line18"
    /\ pc' = "line21"
    /\ UNCHANGED <<error, fetchState, fetchCount, response, earthquakeData,
                   allDepths, gradientColors, colorDomain, chromaScale, markers,
                   overlayBuilt, mapBuilt, legendAdded, legend,
                   colorDomainWrites, chromaScaleWrites, limitsCalls,
                   readUndefined>>

\* line 18: chromaScale = chroma.scale(gradientColors).domain(colorDomain)
SetChromaScale ==
    /\ pc = "line18"
    /\ pc' = "line21"
    /\ chromaScale' = scaleOf(gradientColors, colorDomain.v)
    /\ chromaScaleWrites' = chromaScaleWrites + 1
    /\ readUndefined' = (readUndefined \/ colorDomain.t = "undefined")
    /\ UNCHANGED <<error, fetchState, fetchCount, response, earthquakeData,
                   allDepths, gradientColors, colorDomain, markers,
                   overlayBuilt, mapBuilt, legendAdded, legend,
                   colorDomainWrites, limitsCalls>>

\* lines 82-86: L.geoJSON calls _pointToLayer, then _addPopup, for the next
\* feature and registers the marker in the layer group; colorDepth on an
\* undefined chromaScale raises a TypeError
AddMarker ==
    /\ pc = "line21"
    /\ Len(markers) < Len(earthquakeData)
    /\ readUndefined' = (readUndefined \/ chromaScale.t = "undefined")
    /\ IF chromaScale.t = "undefined"
       THEN /\ pc' = "failed"
            /\ error' = "TypeError"
            /\ UNCHANGED markers
       ELSE /\ markers' = Append(markers,
                             pointToLayer(earthquakeData[Len(markers) + 1]))
            /\ UNCHANGED <<pc, error>>
    /\ UNCHANGED <<fetchState, fetchCount, response, earthquakeData, allDepths,
                   gradientColors, colorDomain, chromaScale, overlayBuilt,
                   mapBuilt, legendAdded, legend, colorDomainWrites,
                   chromaScaleWrites, limitsCalls>>

\* lines 21, 87: every feature has its marker; the layer group is returned
FinishFeatures ==
    /\ pc = "line21"
    /\ Len(markers) = Len(earthquakeData)
    /\ overlayBuilt' = TRUE
    /\ pc' = "line24"
    /\ UNCHANGED <<error, fetchState, fetchCount, response, earthquakeData,
                   allDepths, gradientColors, colorDomain, chromaScale, markers,
                   mapBuilt, legendAdded, legend, colorDomainWrites,
                   chromaScaleWrites, limitsCalls, readUndefined>>

\* lines 122-166: tile layers, L.map with the overlay, guide lines, control
createMap ==
    /\ pc = "line24"
    /\ mapBuilt' = TRUE
    /\ pc' = "line169"
    /\ UNCHANGED <<error, fetchState, fetchCount, response, earthquakeData,
                   allDepths, gradientColors, colorDomain, chromaScale, markers,
                   overlayBuilt, legendAdded, legend, colorDomainWrites,
                   chromaScaleWrites, limitsCalls, readUndefined>>

\* lines 169-170 and 92-119: legend.addTo(map) runs onAdd, which iterates
\* colorDomain; forEach on undefined raises a TypeError
createLegend ==
    /\ pc = "line169"
    /\ readUndefined' = (readUndefined \/ colorDomain.t = "undefined")
    /\ IF colorDomain.t = "undefined"
       THEN /\ pc' = "failed"
            /\ error' = "TypeError"
            /\ UNCHANGED <<legend, legendAdded>>
       ELSE /\ legend' = legendLabels(colorDomain.v)
            /\ legendAdded' = TRUE
            /\ pc' = "done"
            /\ UNCHANGED error
    /\ UNCHANGED <<fetchState, fetchCount, response, earthquakeData, allDepths,
                   gradientColors, colorDomain, chromaScale, markers,
                   overlayBuilt, mapBuilt, colorDomainWrites,
                   chromaScaleWrites, limitsCalls>>

Next ==
    \/ CallInit
    \/ FetchResolve
    \/ FetchReject
    \/ ResumeInit
    \/ ExtractDepths
    \/ SetColorDomain
    \/ SetChromaScale
    \/ AddMarker
    \/ FinishFeatures
    \/ createMap
    \/ createLegend

Spec == Init /\ [][Next]_vars

(***************************************************************************)
(* Positions of init() used by the properties.                             *)
(***************************************************************************)
\* init has resumed after the await of line 11 with a response
PastAwait ==
    \/ pc \in {"line15", "line17", "line18", "line21", "line24", "line169", "done"}
    \/ pc = "failed" /\ error # "fetch"

\* line 15 has returned: allDepths holds getDepths' result
DepthsExtracted ==
    \/ pc \in {"line17", "line18", "line21", "line24", "line169", "done"}
    \/ pc = "failed" /\ error = "limits"

\* something of the pipeline after the fetch exists
StageOccurred ==
    \/ allDepths # <<>>
    \/ limitsCalls > 0
    \/ colorDomain.t # "undefined"
    \/ chromaScale.t # "undefined"
    \/ markers # <<>>
    \/ overlayBuilt
    \/ mapBuilt
    \/ legendAdded

NothingBuilt ==
    /\ markers = <<>>
    /\ ~overlayBuilt
    /\ ~mapBuilt
    /\ ~legendAdded

(***************************************************************************)
(* C1: getDepths returns one depth per feature, in order: the source depth *)
(* d when d > 0 and 0.01 otherwise; every returned depth is > 0.           *)
(***************************************************************************)
C1_GetDepths ==
    DepthsExtracted =>
        /\ Len(allDepths) = Len(earthquakeData)
        /\ \A i \in 1..Len(earthquakeData) :
              LET d == earthquakeData[i].depth
              IN /\ allDepths[i].t = "num"
                 /\ (d.t = "num" /\ d.v > 0) => allDepths[i].v = d.v
                 /\ (d.t = "num" /\ d.v <= 0) => allDepths[i].v = DepthFloor
                 /\ allDepths[i].v > 0

\* a feed with a positive and a non-positive depth went through getDepths
C1_Witness ==
    /\ DepthsExtracted
    /\ Len(earthquakeData) = 2
    /\ earthquakeData[1].depth = Num(0)
    /\ earthquakeData[2].depth = Num(35)
    /\ allDepths = <<Num(DepthFloor), Num(35)>>

(***************************************************************************)
(* C2: each marker's radius is radialMagnitude of its magnitude: 2 below   *)
(* 0.5, 4 * m from 0.5 on, never below 2 for a numeric magnitude; and      *)
(* creating the marker leaves the module-level variables unchanged.        *)
(***************************************************************************)
C2_RadialMagnitude ==
    [][Len(markers') > Len(markers) =>
          /\ LET m == earthquakeData[Len(markers')].mag
                 r == markers'[Len(markers')].radius
             IN m.t = "num" =>
                    /\ r.t = "num"
                    /\ m.v < 5 => r.v = 20
                    /\ m.v >= 5 => r.v = 4 * m.v
                    /\ r.v >= 20
          /\ UNCHANGED moduleState]_vars

\* markers exist for magnitude 0.5 (radius 2, the boundary) and magnitude 6
C2_Witness ==
    /\ Len(markers) = 2
    /\ earthquakeData[1].mag = Num(5)
    /\ markers[1].radius = Num(20)
    /\ earthquakeData[2].mag = Num(60)
    /\ markers[2].radius = Num(240)

(***************************************************************************)
(* C3: the depth handed to the colour mapping for a feature's marker is    *)
(* the feature's effective depth, so it is never below the 0.01 floor nor  *)
(* above the largest extracted depth.                                      *)
(***************************************************************************)
C3_ColorArgIsEffectiveDepth ==
    \A i \in 1..Len(markers) :
        LET a == markers[i].color.arg
            d == earthquakeData[i].depth
        IN /\ a.t = "num"
           /\ a.v = (IF d.t = "num" /\ d.v > 0 THEN d.v ELSE DepthFloor)
           /\ a.v >= DepthFloor
           /\ a.v <= SeqMax(allDepths)

(***************************************************************************)
(* C4 (as amended): once init has built the colour domain from a non-empty *)
(* depth set, colorDomain is non-decreasing and holds one boundary per     *)
(* palette colour (6), running from the least to the greatest depth.       *)
(***************************************************************************)
C4_ColorDomainShape ==
    (colorDomain.t = "array" /\ allDepths # <<>>) =>
        /\ Len(colorDomain.v) = Len(Palette)
        /\ \A i \in 1..Len(colorDomain.v) : colorDomain.v[i].t = "num"
        /\ \A i \in 1..(Len(colorDomain.v) - 1) :
              colorDomain.v[i].v <= colorDomain.v[i + 1].v
        /\ colorDomain.v[1].v = SeqMin(allDepths)
        /\ colorDomain.v[Len(colorDomain.v)].v = SeqMax(allDepths)

\* C4 as stated: the colour domain has palette_size - 1 = 5 boundaries
C4_Original ==
    (colorDomain.t = "array" /\ allDepths # <<>>) =>
        /\ Len(colorDomain.v) = Len(Palette) - 1
        /\ \A i \in 1..(Len(colorDomain.v) - 1) :
              colorDomain.v[i].v <= colorDomain.v[i + 1].v

\* a colour domain over depths 0.005 and 0.035 km, strictly increasing
C4_Witness ==
    /\ colorDomain.t = "array"
    /\ allDepths = <<Num(5), Num(35)>>
    /\ \A i \in 1..(Len(colorDomain.v) - 1) :
          colorDomain.v[i].v < colorDomain.v[i + 1].v

(***************************************************************************)
(* C5: the legend has one label per colour-domain boundary, in order; the  *)
(* first is the literal "0.01 +" whatever the first boundary is, every     *)
(* other one is its boundary rounded to two decimal places.                *)
(***************************************************************************)
C5_LegendLabels ==
    legendAdded =>
        /\ Len(legend) = Len(colorDomain.v)
        /\ \A i \in 1..Len(legend) :
              LET b == colorDomain.v[i]
              IN IF i = 1 THEN legend[i].text = "0.01 +"
                 ELSE IF b.t = "num"
                      THEN /\ legend[i].text = "fixed2"
                           /\ 10 * legend[i].cents - b.v \in -4..5
                      ELSE legend[i].text \notin {"fixed2", "0.01 +"}

\* a legend whose first boundary is 0.005 km, not 0.01, and whose later
\* boundaries need rounding
C5_Witness ==
    /\ legendAdded
    /\ colorDomain.v[1] = Num(5)
    /\ legend[1] = FloorLabel
    /\ \E i \in 2..Len(legend) :
          colorDomain.v[i].v % 10 >= 5 /\ 10 * legend[i].cents > colorDomain.v[i].v

(***************************************************************************)
(* C6: the fetch is issued once; every stage after it happens only with    *)
(* the fetch resolved; a settled fetch stays as it is and is not reissued, *)
(* so after a failure, or while it hangs, no stage occurs and no map is    *)
(* built.                                                                  *)
(***************************************************************************)
C6_FetchOnceThenStages ==
    /\ [](/\ fetchCount <= 1
          /\ pc # "load" => fetchCount = 1
          /\ (PastAwait \/ StageOccurred) => fetchState = "resolved"
          /\ fetchState \in {"idle", "pending", "rejected"} =>
                 NothingBuilt /\ ~StageOccurred)
    /\ [][/\ fetchCount > 0 => fetchCount' = fetchCount
          /\ fetchState \in {"resolved", "rejected"} => fetchState' = fetchState]_vars

\* a page load that ran to the end on one resolved fetch
C6_Witness ==
    /\ pc = "done"
    /\ fetchCount = 1
    /\ fetchState = "resolved"
    /\ mapBuilt
    /\ legendAdded
    /\ markers # <<>>

(***************************************************************************)
(* C7: on an empty feature collection the pipeline builds no colour scale  *)
(* over the empty depth set, does not fail, and ends with an empty overlay *)
(* and a legend of zero bins.                                              *)
(***************************************************************************)
C7_EmptyFeedSkipsScale ==
    (PastAwait /\ fetchState = "resolved" /\ earthquakeData = <<>>) =>
        /\ limitsCalls = 0
        /\ pc # "failed"
        /\ pc = "done" => (markers = <<>> /\ legend = <<>>)

(***************************************************************************)
(* C8: a failed fetch, a feature without coordinates, a feature without    *)
(* magnitude, or a failing colour-scale construction ends init before      *)
(* anything is built: no marker, overlay, map or legend.                   *)
(***************************************************************************)
C8_FatalInputAborts ==
    (\/ fetchState = "rejected"
     \/ error = "limits"
     \/ /\ PastAwait
        /\ \E i \in 1..Len(earthquakeData) :
              \/ ~earthquakeData[i].hasCoords
              \/ earthquakeData[i].mag.t = "undefined")
    => NothingBuilt

(***************************************************************************)
(* C9: every extracted depth is max(d, 0.01) of its source depth d, so     *)
(* none is below the 0.01 floor.                                           *)
(***************************************************************************)
C9_DepthIsMaxWithFloor ==
    DepthsExtracted =>
        \A i \in 1..Len(earthquakeData) :
            LET d == earthquakeData[i].depth
            IN /\ allDepths[i].v >= DepthFloor
               /\ d.t = "num" =>
                     allDepths[i].v = (IF d.v > DepthFloor THEN d.v ELSE DepthFloor)

(***************************************************************************)
(* C10: colorDomain and chromaScale are each assigned at most once, in     *)
(* init after the fetch has resolved, and exactly once by the time init    *)
(* passes lines 17 and 18; no marker or legend is made, and neither        *)
(* variable is read, before its assignment; gradientColors keeps its       *)
(* initial value.                                                          *)
(***************************************************************************)
C10_WriteOnceReadAfter ==
    /\ colorDomainWrites <= 1
    /\ chromaScaleWrites <= 1
    /\ (colorDomainWrites + chromaScaleWrites > 0) => fetchState = "resolved"
    /\ pc \in {"line18", "line21", "line24", "line169", "done"} =>
           colorDomainWrites = 1 /\ colorDomain.t = "array"
    /\ pc \in {"line21", "line24", "line169", "done"} =>
           chromaScaleWrites = 1 /\ chromaScale.t = "scale"
    /\ (markers # <<>> \/ legendAdded) =>
           colorDomainWrites = 1 /\ chromaScaleWrites = 1
    /\ ~readUndefined
    /\ gradientColors = Palette

\* markers and the legend exist, both variables written once and read
C10_Witness ==
    /\ pc = "done"
    /\ Len(markers) = 2
    /\ legendAdded
    /\ colorDomainWrites = 1
    /\ chromaScaleWrites = 1
    /\ markers[1].color.scale = chromaScale

====
